---- MODULE Spec2Model ----
(***************************************************************************)
(* Model of the Notion agent CLI: the session loop of app.py, the three    *)
(* agents of agents.py and the eleven content operations of tools.py.      *)
(*                                                                         *)
(* A Python str is a sequence of one-character strings wherever the code   *)
(* looks inside it (lower, in, split, strip); configuration values and     *)
(* literals that are only concatenated or compared are kept as single      *)
(* pieces, so that an f-string is a concatenation (\o) of pieces.          *)
(***************************************************************************)
EXTENDS Integers, Sequences, FiniteSets, TLC

VARIABLES
    NOTION_API_KEY,     \* tools.py:33, module global
    NOTION_ENDPOINT,    \* tools.py:35, module global
    NOTION_PAGE_ID,     \* tools.py:36, module global
    functions,          \* agents.py: Agent.functions of the three agents
    pc,                 \* position of the process
    prompt,             \* app.py:39, the line read
    messages,           \* app.py:43, the list handed to client.run
    response,           \* app.py:52, the Response of the last finished run
    stdout,             \* the last line written (print, or sys.exit's message)
    active_agent,       \* client.run: the agent the oracle is asked as
    context_variables,  \* client.run: the context bundle of the run
    history,            \* client.run: the messages of the run
    call,               \* the content operation or transfer invoked last
    sent,               \* the HTTP requests the last invocation issued
    outcome,            \* what the transport made of the last request
    ret,                \* what the last invocation returned or raised
    turns               \* input lines read so far

vars == <<NOTION_API_KEY, NOTION_ENDPOINT, NOTION_PAGE_ID, functions, pc, prompt,
          messages, response, stdout, active_agent, context_variables, history,
          call, sent, outcome, ret, turns>>

---------------------------------------------------------------------------
\* Bounds of the model.

\* Input lines read in one process run.
MaxTurns == 2

\* Tool calls the oracle makes in one client.run (the library sets no limit).
MaxToolCalls == 2

\* Length of the comma-delimited string handed to a list operation.
MaxItemsLen == 4

---------------------------------------------------------------------------
\* Python str helpers.

UpperCase ==
    <<"A", "B", "C", "D", "E", "F", "G", "H", "I", "J", "K", "L", "M",
      "N", "O", "P", "Q", "R", "S", "T", "U", "V", "W", "X", "Y", "Z">>

LowerCase ==
    <<"a", "b", "c", "d", "e", "f", "g", "h", "i", "j", "k", "l", "m",
      "n", "o", "p", "q", "r", "s", "t", "u", "v", "w", "x", "y", "z">>

\* str.lower on one character: a cased upper-case letter maps to its
\* lower-case letter, anything else is kept.
LowerChar(c) ==
    IF \E i \in 1..Len(UpperCase) : UpperCase[i] = c
    THEN LowerCase[CHOOSE i \in 1..Len(UpperCase) : UpperCase[i] = c]
    ELSE c

\* str.lower
PyLower(s) ==
    [i \in 1..Len(s) |-> LowerChar(s[i])]

\* The characters str.strip removes.
Whitespace ==
    {" ", "\t", "\n"}

---------------------------------------------------------------------------
\* The transport (httpx) and the remote API: what one request can come to.

\* The timeouts httpx reports, each a subclass of httpx.TimeoutException.
Timeouts ==
    {"ConnectTimeout", "ReadTimeout", "WriteTimeout", "PoolTimeout"}

\* What the transport raises: a timeout, or a failure to connect.
TransportErrors ==
    Timeouts \cup {"ConnectError"}

\* A response body: JSON text, or text that is not JSON (a gateway's page).
Bodies ==
    {[is_json |-> TRUE, text |-> "{...}"], [is_json |-> FALSE, text |-> "<html>"]}

\* The outcomes of one request: the transport raises, or a response arrives.
Outcomes ==
    {[kind |-> "raise", exc |-> e] : e \in TransportErrors}
    \cup {[kind |-> "response", status |-> st, body |-> b] :
             st \in {200, 404}, b \in Bodies}

Return(v) ==
    [kind |-> "return", value |-> v]

Raise(e) ==
    [kind |-> "raise", exc |-> e]

\* response.json(): the parsed body, or json.JSONDecodeError for a body that
\* is not JSON. The status is not looked at.
ResponseJson(resp) ==
    IF resp.body.is_json
    THEN Return([parsed |-> resp.body.text])
    ELSE Raise("JSONDecodeError")

\* The try block every operation ends with:
\*     try: response = httpx.<method>(...); return response.json()
\*     except httpx.ReadTimeout: return {"error": "Request timed out"}
TryRequest(method, url, headers, json, o) ==
    [sent |-> <<[method |-> method, url |-> url, headers |-> headers, json |-> json]>>,
     ret  |-> IF o.kind = "raise"
              THEN IF o.exc = "ReadTimeout"
                   THEN Return([error |-> "Request timed out"])
                   ELSE Raise(o.exc)
              ELSE ResponseJson(o)]

\* The headers every operation builds.
Headers(api_key) ==
    [Authorization |-> <<"Bearer ">> \o api_key,
     ContentType   |-> "application/json",
     NotionVersion |-> "2022-06-28"]

\* f"{NOTION_ENDPOINT}/blocks/{page_id}/children"
ChildrenUrl(page_id) ==
    NOTION_ENDPOINT \o <<"/blocks/">> \o page_id \o <<"/children">>

---------------------------------------------------------------------------
\* The content operations of tools.py. Each takes its arguments and the
\* outcome o of the request it may issue, and gives the requests it issued
\* and what it returned or raised.

create_notion_page(page_title, o) ==
    LET api_key == NOTION_API_KEY
        page_id == NOTION_PAGE_ID
        url == NOTION_ENDPOINT \o <<"/pages">>
        properties == [title |-> [title |-> <<[text |-> [content |-> page_title]]>>]]
    IN  TryRequest("POST", url, Headers(api_key),
                   [parent |-> [page_id |-> page_id], properties |-> properties], o)

\* text_obj, with the link the code adds after building data (data holds the
\* same object, so the link is in the payload).
TextObj(content, is_hyperlink, hyperlink_url) ==
    IF is_hyperlink
    THEN [type |-> "text", text |-> [content |-> content, link |-> [url |-> hyperlink_url]]]
    ELSE [type |-> "text", text |-> [content |-> content]]

add_notion_heading_block(heading_type, content, is_hyperlink, hyperlink_url, color, o) ==
    LET api_key == NOTION_API_KEY
        page_id == NOTION_PAGE_ID
        url == ChildrenUrl(page_id)
        text_obj == TextObj(content, is_hyperlink, hyperlink_url)
        data == [children |-> <<
                    (heading_type :> [rich_text |-> <<text_obj>>, color |-> color])
                    @@ [object |-> "block", type |-> heading_type] >>]
    IN  TryRequest("PATCH", url, Headers(api_key), data, o)

add_notion_paragraph_block(content, is_hyperlink, hyperlink_url, color, o) ==
    LET api_key == NOTION_API_KEY
        page_id == NOTION_PAGE_ID
        url == ChildrenUrl(page_id)
        text_obj == TextObj(content, is_hyperlink, hyperlink_url)
        data == [children |-> <<
                    [object |-> "block", type |-> "paragraph",
                     paragraph |-> [rich_text |-> <<text_obj>>, color |-> color]] >>]
    IN  TryRequest("PATCH", url, Headers(api_key), data, o)

add_notion_code_block(code, language, caption, o) ==
    LET api_key == NOTION_API_KEY
        page_id == NOTION_PAGE_ID
        url == ChildrenUrl(page_id)
        data == [children |-> <<
                    [object |-> "block", type |-> "code",
                     code |-> [caption |-> [i \in 1..Len(caption) |->
                                               [text |-> [content |-> caption[i]]]],
                               rich_text |-> <<[type |-> "text", text |-> [content |-> code]]>>,
                               language |-> language]] >>]
    IN  TryRequest("PATCH", url, Headers(api_key), data, o)

\* Line 231 assigns the request address to the name url, the parameter; the
\* payload of line 238 and the request of line 241 both read that name.
add_notion_embed_block(url, o) ==
    LET api_key == NOTION_API_KEY
        page_id == NOTION_PAGE_ID
        url_231 == ChildrenUrl(page_id)
        data == [children |-> <<
                    [object |-> "block", type |-> "embed", embed |-> [url |-> url_231]] >>]
    IN  TryRequest("PATCH", url_231, Headers(api_key), data, o)

\* Python's `sub in s` on str: s is scanned for an occurrence of sub.
RECURSIVE PyIn(_, _)
PyIn(sub, s) ==
    IF Len(sub) > Len(s) THEN FALSE
    ELSE IF SubSeq(s, 1, Len(sub)) = sub THEN TRUE
    ELSE PyIn(sub, Tail(s))

YoutubeHost ==
    <<"y", "o", "u", "t", "u", "b", "e", ".", "c", "o", "m">>

YoutubeWatch ==
    <<"w", "a", "t", "c", "h", "?", "v", "=">>

\* Mutant of add_notion_youtube_url_block: the watch marker is not asked for.
add_notion_youtube_url_block_host_only(video_url, o) ==
    IF ~PyIn(YoutubeHost, video_url)
    THEN [sent |-> <<>>, ret |-> Return([error |-> "Invalid YouTube video URL"])]
    ELSE
    LET api_key == NOTION_API_KEY
        page_id == NOTION_PAGE_ID
        url == ChildrenUrl(page_id)
        data == [children |-> <<
                    [object |-> "block", type |-> "video",
                     video |-> [type |-> "external", external |-> [url |-> video_url]]] >>]
    IN  TryRequest("PATCH", url, Headers(api_key), data, o)

add_notion_youtube_url_block(video_url, o) ==
    IF ~PyIn(YoutubeHost, video_url)
    THEN [sent |-> <<>>, ret |-> Return([error |-> "Invalid YouTube video URL"])]
    ELSE IF ~PyIn(YoutubeWatch, video_url)
    THEN [sent |-> <<>>, ret |-> Return([error |-> "Invalid YouTube video URL"])]
    ELSE
    LET api_key == NOTION_API_KEY
        page_id == NOTION_PAGE_ID
        url == ChildrenUrl(page_id)
        data == [children |-> <<
                    [object |-> "block", type |-> "video",
                     video |-> [type |-> "external", external |-> [url |-> video_url]]] >>]
    IN  TryRequest("PATCH", url, Headers(api_key), data, o)

add_notion_image_block(image_url, o) ==
    LET api_key == NOTION_API_KEY
        page_id == NOTION_PAGE_ID
        url == ChildrenUrl(page_id)
        data == [children |-> <<
                    [object |-> "block", type |-> "image",
                     image |-> [type |-> "external", external |-> [url |-> image_url]]] >>]
    IN  TryRequest("PATCH", url, Headers(api_key), data, o)

add_notion_bookmark_block(link, caption, o) ==
    LET api_key == NOTION_API_KEY
        page_id == NOTION_PAGE_ID
        url == ChildrenUrl(page_id)
        data == [children |-> <<
                    [object |-> "block", type |-> "bookmark",
                     bookmark |-> [url |-> link,
                                   caption |-> <<[text |-> [content |-> caption]]>>]] >>]
    IN  TryRequest("PATCH", url, Headers(api_key), data, o)

\* str.split(sep) for a one-character sep: cut at the first sep, go on with
\* the rest; a string without sep is the one element.
RECURSIVE PySplit(_, _)
PySplit(s, sep) ==
    IF \A i \in 1..Len(s) : s[i] # sep THEN <<s>>
    ELSE LET i == CHOOSE k \in 1..Len(s) :
                      s[k] = sep /\ \A j \in 1..(k - 1) : s[j] # sep
         IN  <<SubSeq(s, 1, i - 1)>> \o PySplit(SubSeq(s, i + 1, Len(s)), sep)

RECURSIVE PyLStrip(_)
PyLStrip(s) ==
    IF s # <<>> /\ Head(s) \in Whitespace THEN PyLStrip(Tail(s)) ELSE s

RECURSIVE PyRStrip(_)
PyRStrip(s) ==
    IF s # <<>> /\ s[Len(s)] \in Whitespace
    THEN PyRStrip(SubSeq(s, 1, Len(s) - 1)) ELSE s

\* str.strip()
PyStrip(s) ==
    PyRStrip(PyLStrip(s))

\* An items argument is a str ([str |-> characters]) or a list of str
\* ([list |-> elements]): isinstance(items, str) asks which.
IsInstanceStr(items) ==
    "str" \in DOMAIN items

\* Mutant of NormalizeItems: the elements are not stripped.
NormalizeItems_no_strip(items) ==
    IF IsInstanceStr(items)
    THEN PySplit(items.str, ",")
    ELSE items.list

\* if isinstance(items, str): items = [item.strip() for item in items.split(",")]
NormalizeItems(items) ==
    IF IsInstanceStr(items)
    THEN LET parts == PySplit(items.str, ",")
         IN  [i \in 1..Len(parts) |-> PyStrip(parts[i])]
    ELSE items.list

add_notion_number_list_block(items, o) ==
    LET items_363 == NormalizeItems(items)
        api_key == NOTION_API_KEY
        page_id == NOTION_PAGE_ID
        url == ChildrenUrl(page_id)
        data == [children |-> [i \in 1..Len(items_363) |->
                    [object |-> "block", type |-> "numbered_list_item",
                     numbered_list_item |->
                        [rich_text |-> <<[type |-> "text",
                                          text |-> [content |-> items_363[i]]]>>]]]]
    IN  TryRequest("PATCH", url, Headers(api_key), data, o)

add_notion_bulleted_list_block(items, o) ==
    LET items_403 == NormalizeItems(items)
        api_key == NOTION_API_KEY
        page_id == NOTION_PAGE_ID
        url == ChildrenUrl(page_id)
        data == [children |-> [i \in 1..Len(items_403) |->
                    [object |-> "block", type |-> "bulleted_list_item",
                     bulleted_list_item |->
                        [rich_text |-> <<[type |-> "text",
                                          text |-> [content |-> items_403[i]]]>>]]]]
    IN  TryRequest("PATCH", url, Headers(api_key), data, o)

add_notion_to_do_block(items, checked, o) ==
    LET items_444 == NormalizeItems(items)
        api_key == NOTION_API_KEY
        page_id == NOTION_PAGE_ID
        url == ChildrenUrl(page_id)
        data == [children |-> [i \in 1..Len(items_444) |->
                    [object |-> "block", type |-> "to_do",
                     to_do |->
                        [rich_text |-> <<[type |-> "text",
                                          text |-> [content |-> items_444[i]]]>>,
                         checked |-> checked]]]]
    IN  TryRequest("PATCH", url, Headers(api_key), data, o)

---------------------------------------------------------------------------
\* agents.py: the three agents (by name), their transfer functions and the
\* capability lists.

notion_delegate_agent ==
    "Notion Delegate Agent"

notion_page_agent ==
    "Notion Page Agent"

notion_block_agent ==
    "Notion Block Agent"

Agents ==
    {notion_delegate_agent, notion_page_agent, notion_block_agent}

\* Mutant of transfer_to_notion_delegate_agent: the two values are put under
\* each other's key.
transfer_to_notion_delegate_agent_swapped ==
    [agent |-> notion_delegate_agent,
     context_variables |-> [api_key |-> NOTION_PAGE_ID, page_id |-> NOTION_API_KEY],
     value |-> ""]

\* Result(agent=..., context_variables={...}); value keeps its default "".
transfer_to_notion_delegate_agent ==
    [agent |-> notion_delegate_agent,
     context_variables |-> [api_key |-> NOTION_API_KEY, page_id |-> NOTION_PAGE_ID],
     value |-> ""]

transfer_to_notion_page_agent ==
    [agent |-> notion_page_agent,
     context_variables |-> [api_key |-> NOTION_API_KEY, page_id |-> NOTION_PAGE_ID],
     value |-> ""]

transfer_to_notion_block_agent ==
    [agent |-> notion_block_agent,
     context_variables |-> [api_key |-> NOTION_API_KEY, page_id |-> NOTION_PAGE_ID],
     value |-> ""]

TransferNames ==
    {"transfer_to_notion_delegate_agent", "transfer_to_notion_page_agent",
     "transfer_to_notion_block_agent"}

\* The function a transfer name is bound to.
TransferResult(name) ==
    CASE name = "transfer_to_notion_delegate_agent" -> transfer_to_notion_delegate_agent
      [] name = "transfer_to_notion_page_agent" -> transfer_to_notion_page_agent
      [] name = "transfer_to_notion_block_agent" -> transfer_to_notion_block_agent

\* The list the Page agent is extended with.
PageOperations ==
    <<"create_notion_page">>

\* The list the Block agent is extended with.
BlockOperations ==
    <<"add_notion_heading_block", "add_notion_paragraph_block", "add_notion_code_block",
      "add_notion_embed_block", "add_notion_youtube_url_block", "add_notion_image_block",
      "add_notion_bookmark_block", "add_notion_number_list_block",
      "add_notion_bulleted_list_block", "add_notion_to_do_block">>

Range(f) ==
    {f[i] : i \in DOMAIN f}

\* The eleven content operations.
ContentOperations ==
    Range(PageOperations) \cup Range(BlockOperations)

\* Mutant of ConstructedFunctions: the Page agent is also given the transfer
\* to the Block agent.
ConstructedFunctions_page_to_block ==
    (notion_delegate_agent :> <<"transfer_to_notion_page_agent",
                                "transfer_to_notion_block_agent">>)
    @@ (notion_page_agent :> <<"transfer_to_notion_delegate_agent",
                               "transfer_to_notion_block_agent">>)
    @@ (notion_block_agent :> <<"transfer_to_notion_delegate_agent">>)

\* Agent(...functions=[...]) of the three agents: each gets a list of its own.
ConstructedFunctions ==
    (notion_delegate_agent :> <<"transfer_to_notion_page_agent",
                                "transfer_to_notion_block_agent">>)
    @@ (notion_page_agent :> <<"transfer_to_notion_delegate_agent">>)
    @@ (notion_block_agent :> <<"transfer_to_notion_delegate_agent">>)

\* Mutant of Extend: the agents share one list, so every list grows.
ExtendShared(fs, agent, new) ==
    [a \in DOMAIN fs |-> fs[a] \o new]

\* agent.functions.extend(new): the list of that one agent grows.
Extend(fs, agent, new) ==
    [fs EXCEPT ![agent] = @ \o new]

---------------------------------------------------------------------------
\* Arguments. UnitArgs(op) are the arguments an operation is exercised with
\* when called on its own; OracleArgs(op) are the few the oracle hands over
\* in a session.

Str(piece) ==
    <<piece>>

UrlSchemes ==
    {<<>>, <<"h", "t", "t", "p", "s", ":", "/", "/">>}

UrlHosts ==
    {YoutubeHost,
     <<"y", "o", "u", "t", "u", ".", "b", "e">>,
     <<"e", "x", "a", "m", "p", "l", "e", ".", "c", "o", "m">>,
     <<"y", "o", "u", "t", "u", "b", "e", "c", "o", "m">>}

UrlPaths ==
    {<<>>,
     <<"/", "w", "a", "t", "c", "h", "?", "v", "=", "a", "b", "c">>,
     <<"/", "c", "h", "a", "n", "n", "e", "l", "/", "x", "y", "z">>,
     <<"/", "w", "a", "t", "c", "h", "?", "v">>,
     <<"/", "v", "i", "d", "e", "o">>}

\* URLs: scheme, host and path in order, and a path put before the host.
Urls ==
    {sc \o h \o p : sc \in UrlSchemes, h \in UrlHosts, p \in UrlPaths}
    \cup {p \o h : p \in UrlPaths, h \in UrlHosts}

ItemChars ==
    {"a", "b", " ", ","}

\* All strings over ItemChars of length n.
RECURSIVE StringsOfLen(_)
StringsOfLen(n) ==
    IF n = 0 THEN {<<>>}
    ELSE {Append(s, c) : s \in StringsOfLen(n - 1), c \in ItemChars}

ItemStrings ==
    UNION {StringsOfLen(n) : n \in 0..MaxItemsLen}

ItemLists ==
    {<<>>, <<Str("Milk")>>, <<Str("Milk"), Str(" Eggs ")>>,
     <<Str("a,b"), <<>>, Str("Bread")>>}

ItemsArgs ==
    {[str |-> s] : s \in ItemStrings} \cup {[list |-> l] : l \in ItemLists}

Texts ==
    {Str("Notes"), <<>>}

UnitArgs(op) ==
    CASE op = "create_notion_page" ->
            {[page_title |-> t] : t \in Texts}
      [] op = "add_notion_heading_block" ->
            {[heading_type |-> ht, content |-> c, is_hyperlink |-> b,
              hyperlink_url |-> u, color |-> col] :
                ht \in {"heading_1", "heading_2", "heading_3"}, c \in Texts,
                b \in BOOLEAN, u \in {<<>>, Str("https://example.com")},
                col \in {"default", "blue"}}
      [] op = "add_notion_paragraph_block" ->
            {[content |-> c, is_hyperlink |-> b, hyperlink_url |-> u, color |-> col] :
                c \in Texts, b \in BOOLEAN,
                u \in {<<>>, Str("https://example.com")}, col \in {"default", "blue"}}
      [] op = "add_notion_code_block" ->
            {[code |-> c, language |-> l, caption |-> cap] :
                c \in {Str("print(1)")}, l \in {"python", "c"},
                cap \in {<<>>, <<Str("one")>>, <<Str("one"), Str("two")>>}}
      [] op = "add_notion_embed_block" ->
            {[url |-> u] : u \in Urls}
      [] op = "add_notion_youtube_url_block" ->
            {[video_url |-> u] : u \in Urls}
      [] op = "add_notion_image_block" ->
            {[image_url |-> u] : u \in Urls}
      [] op = "add_notion_bookmark_block" ->
            {[link |-> u, caption |-> c] : u \in Urls, c \in Texts}
      [] op = "add_notion_number_list_block" ->
            {[items |-> i] : i \in ItemsArgs}
      [] op = "add_notion_bulleted_list_block" ->
            {[items |-> i] : i \in ItemsArgs}
      [] op = "add_notion_to_do_block" ->
            {[items |-> i, checked |-> b] : i \in ItemsArgs, b \in BOOLEAN}

VideoUrl ==
    <<"h", "t", "t", "p", "s", ":", "/", "/">> \o YoutubeHost
    \o <<"/", "w", "a", "t", "c", "h", "?", "v", "=", "a", "b", "c">>

OracleArgs(op) ==
    CASE op = "create_notion_page" ->
            {[page_title |-> Str("Notes")]}
      [] op = "add_notion_heading_block" ->
            {[heading_type |-> "heading_1", content |-> Str("Notes"),
              is_hyperlink |-> FALSE, hyperlink_url |-> <<>>, color |-> "default"]}
      [] op = "add_notion_paragraph_block" ->
            {[content |-> Str("Notes"), is_hyperlink |-> TRUE,
              hyperlink_url |-> Str("https://example.com"), color |-> "default"]}
      [] op = "add_notion_code_block" ->
            {[code |-> Str("print(1)"), language |-> "python", caption |-> <<>>]}
      [] op = "add_notion_embed_block" ->
            {[url |-> VideoUrl]}
      [] op = "add_notion_youtube_url_block" ->
            {[video_url |-> VideoUrl], [video_url |-> Str("https://example.com/video")]}
      [] op = "add_notion_image_block" ->
            {[image_url |-> Str("https://example.com/a.png")]}
      [] op = "add_notion_bookmark_block" ->
            {[link |-> Str("https://example.com"), caption |-> Str("Notes")]}
      [] op = "add_notion_number_list_block" ->
            {[items |-> [list |-> <<Str("Milk"), Str("Eggs")>>]]}
      [] op = "add_notion_bulleted_list_block" ->
            {[items |-> [str |-> <<"a", ",", " ", "b">>]]}
      [] op = "add_notion_to_do_block" ->
            {[items |-> [list |-> <<Str("Milk")>>], checked |-> FALSE]}

\* func(**args): the operation a name is bound to, applied to its arguments.
Invoke(op, args, o) ==
    CASE op = "create_notion_page" ->
            create_notion_page(args.page_title, o)
      [] op = "add_notion_heading_block" ->
            add_notion_heading_block(args.heading_type, args.content, args.is_hyperlink,
                                     args.hyperlink_url, args.color, o)
      [] op = "add_notion_paragraph_block" ->
            add_notion_paragraph_block(args.content, args.is_hyperlink,
                                       args.hyperlink_url, args.color, o)
      [] op = "add_notion_code_block" ->
            add_notion_code_block(args.code, args.language, args.caption, o)
      [] op = "add_notion_embed_block" ->
            add_notion_embed_block(args.url, o)
      [] op = "add_notion_youtube_url_block" ->
            add_notion_youtube_url_block(args.video_url, o)
      [] op = "add_notion_image_block" ->
            add_notion_image_block(args.image_url, o)
      [] op = "add_notion_bookmark_block" ->
            add_notion_bookmark_block(args.link, args.caption, o)
      [] op = "add_notion_number_list_block" ->
            add_notion_number_list_block(args.items, o)
      [] op = "add_notion_bulleted_list_block" ->
            add_notion_bulleted_list_block(args.items, o)
      [] op = "add_notion_to_do_block" ->
            add_notion_to_do_block(args.items, args.checked, o)

---------------------------------------------------------------------------
\* The process: import of agents.py, then the loop of app.py around
\* client.run.

ApiKeys ==
    {Str("secret_a")}

PageIds ==
    {Str("page_1"), Str("page_2")}

Endpoints ==
    {Str("https://api.notion.com/v1")}

\* The lines the user types.
InputLines ==
    {<<"e", "x", "i", "t">>, <<"q", "u", "i", "t">>,
     <<"E", "x", "i", "t">>, <<"Q", "U", "I", "T">>,
     <<"e", "x", "i", "t", " ">>, <<"q", "u", "i", "t", "s">>}

\* The texts the oracle replies with.
ReplyTexts ==
    {Str("Done")}

\* Every name the oracle may put in a tool call.
FunctionNames ==
    TransferNames \cup ContentOperations

\* The content operations the oracle asks for in the sessions explored; all
\* eleven are exercised on their own, with UnitArgs.
OracleOperations ==
    {"create_notion_page", "add_notion_embed_block", "add_notion_youtube_url_block",
     "add_notion_bulleted_list_block"}

\* The names the oracle may use although the active agent lacks them.
StrayNames ==
    {"create_notion_page", "transfer_to_notion_page_agent"}

NoCall ==
    [op |-> "None"]

NoOutcome ==
    [kind |-> "None"]

NoRet ==
    [kind |-> "None"]

NoResponse ==
    [unbound |-> TRUE]

EmptyDict ==
    <<>>

\* dict.update(new): the keys of new, and the old keys it does not have.
DictUpdate(old, new) ==
    new @@ old

Init ==
    /\ NOTION_API_KEY \in ApiKeys
    /\ NOTION_ENDPOINT \in Endpoints
    /\ NOTION_PAGE_ID \in PageIds
    /\ functions = ConstructedFunctions
    /\ pc = "extend_page"
    /\ prompt = <<>>
    /\ messages = <<>>
    /\ response = NoResponse
    /\ stdout = <<>>
    /\ active_agent = "None"
    /\ context_variables = EmptyDict
    /\ history = <<>>
    /\ call = NoCall
    /\ sent = <<>>
    /\ outcome = NoOutcome
    /\ ret = NoRet
    /\ turns = 0

config == <<NOTION_API_KEY, NOTION_ENDPOINT, NOTION_PAGE_ID>>

run_vars == <<active_agent, context_variables, history>>

call_vars == <<call, sent, outcome, ret>>

\* notion_page_agent.functions.extend([create_notion_page])
ExtendPageAgent ==
    /\ pc = "extend_page"
    /\ functions' = Extend(functions, notion_page_agent, PageOperations)
    /\ pc' = "extend_block"
    /\ UNCHANGED <<config, prompt, messages, response, stdout, run_vars, call_vars, turns>>

\* notion_block_agent.functions.extend([...])
ExtendBlockAgent ==
    /\ pc = "extend_block"
    /\ functions' = Extend(functions, notion_block_agent, BlockOperations)
    /\ pc' = "main"
    /\ UNCHANGED <<config, prompt, messages, response, stdout, run_vars, call_vars, turns>>

\* client = Swarm(...); print("Notion Agent is live")
StartApp ==
    /\ pc = "main"
    /\ stdout' = Str("Notion Agent is live")
    /\ pc' = "input"
    /\ UNCHANGED <<config, functions, prompt, messages, response, run_vars, call_vars, turns>>

\* prompt.lower() == "exit" or prompt.lower() == "quit"
IsExit(line) ==
    PyLower(line) = <<"e", "x", "i", "t">> \/ PyLower(line) = <<"q", "u", "i", "t">>

\* The f-string of the user message: the line between two indented breaks.
UserContent(line) ==
    <<"\n                    ">> \o line \o <<"\n                ">>

\* input() gives an exit keyword: sys.exit("Bye bye").
ReadExit ==
    /\ pc = "input"
    /\ turns < MaxTurns
    /\ \E line \in InputLines :
        /\ IsExit(line)
        /\ prompt' = line
    /\ turns' = turns + 1
    /\ stdout' = Str("Bye bye")
    /\ pc' = "exited"
    /\ UNCHANGED <<config, functions, messages, response, run_vars, call_vars>>

\* input() gives any other line: messages is built from it and
\* client.run(notion_delegate_agent, messages=messages) begins.
ReadUtterance ==
    /\ pc = "input"
    /\ turns < MaxTurns
    /\ \E line \in InputLines :
        /\ ~IsExit(line)
        /\ prompt' = line
        /\ messages' = <<[role |-> "user", content |-> UserContent(line)]>>
    /\ turns' = turns + 1
    /\ active_agent' = notion_delegate_agent
    /\ context_variables' = EmptyDict
    /\ history' = messages'
    /\ call' = NoCall
    /\ sent' = <<>>
    /\ outcome' = NoOutcome
    /\ ret' = NoRet
    /\ pc' = "run"
    /\ UNCHANGED <<config, functions, response, stdout>>

\* Messages the run has added: len(history) - init_len.
RunLength ==
    Len(history) - Len(messages)

\* The assistant message of a completion.
AssistantMessage(content, tool) ==
    [role |-> "assistant", sender |-> active_agent, content |-> content, tool_call |-> tool]

\* The oracle replies with text: the run ends, its Response is bound to
\* response and the last message is printed.
OracleReply ==
    /\ pc = "run"
    /\ \E text \in ReplyTexts :
        history' = Append(history, AssistantMessage(text, NoCall))
    /\ response' = [messages |-> SubSeq(history', Len(messages) + 1, Len(history')),
                    agent |-> active_agent,
                    context_variables |-> context_variables]
    /\ stdout' = Str("Notion Agent: ")
                    \o response'.messages[Len(response'.messages)].content
    /\ pc' = "input"
    /\ UNCHANGED <<config, functions, prompt, messages, active_agent, context_variables,
                   call_vars, turns>>

\* Every tool call adds two messages, the assistant's and the tool's.
ToolCallFits ==
    RunLength \div 2 < MaxToolCalls

\* The oracle names a function the active agent does not have: the run
\* answers with an error message and asks the oracle again.
ToolNotFound ==
    /\ pc = "run"
    /\ ToolCallFits
    /\ \E name \in StrayNames \ Range(functions[active_agent]) :
        history' = history
            \o <<AssistantMessage(<<>>, [op |-> name]),
                 [role |-> "tool", tool_name |-> name,
                  content |-> Str("Error: Tool ") \o Str(name) \o Str(" not found.")]>>
    /\ UNCHANGED <<config, functions, pc, prompt, messages, response, stdout,
                   active_agent, context_variables, call_vars, turns>>

\* The oracle names a transfer function of the active agent: its Result
\* sets the active agent and updates the context variables.
CallTransfer ==
    /\ pc = "run"
    /\ ToolCallFits
    /\ \E name \in TransferNames \cap Range(functions[active_agent]) :
        LET result == TransferResult(name)
        IN  /\ call' = [op |-> name]
            /\ history' = history
                \o <<AssistantMessage(<<>>, [op |-> name]),
                     [role |-> "tool", tool_name |-> name, content |-> Str(result.value)]>>
            /\ context_variables' = DictUpdate(context_variables, result.context_variables)
            /\ active_agent' = result.agent
    /\ sent' = <<>>
    /\ outcome' = NoOutcome
    /\ ret' = NoRet
    /\ UNCHANGED <<config, functions, pc, prompt, messages, response, stdout, turns>>

\* The oracle names a content operation of the active agent: it is called;
\* what it returns becomes a tool message, what it raises leaves client.run
\* and the loop of app.py, which catch nothing.
CallContentOperation ==
    /\ pc = "run"
    /\ ToolCallFits
    /\ \E name \in OracleOperations \cap Range(functions[active_agent]) :
       \E args \in OracleArgs(name), o \in Outcomes :
        LET r == Invoke(name, args, o)
        IN  /\ call' = [op |-> name, args |-> args]
            /\ sent' = r.sent
            /\ outcome' = IF r.sent = <<>> THEN NoOutcome ELSE o
            /\ ret' = r.ret
            /\ IF r.ret.kind = "raise"
               THEN /\ history' = Append(history, AssistantMessage(<<>>, [op |-> name]))
                    /\ stdout' = Str("Traceback: ") \o Str(r.ret.exc)
                    /\ pc' = "crashed"
               ELSE /\ history' = history
                        \o <<AssistantMessage(<<>>, [op |-> name]),
                             [role |-> "tool", tool_name |-> name,
                              content |-> [str_of |-> r.ret.value]]>>
                    /\ UNCHANGED <<stdout, pc>>
    /\ UNCHANGED <<config, functions, prompt, messages, response, active_agent,
                   context_variables, turns>>

Next ==
    \/ ExtendPageAgent
    \/ ExtendBlockAgent
    \/ StartApp
    \/ ReadExit
    \/ ReadUtterance
    \/ OracleReply
    \/ ToolNotFound
    \/ CallTransfer
    \/ CallContentOperation

Spec ==
    Init /\ [][Next]_vars

---------------------------------------------------------------------------
\* The content operations called on their own, as a caller of tools.py
\* would: agents.py is imported, then one operation is called with any
\* arguments of UnitArgs and meets any outcome.

UnitInit ==
    /\ NOTION_API_KEY \in ApiKeys
    /\ NOTION_ENDPOINT \in Endpoints
    /\ NOTION_PAGE_ID \in PageIds
    /\ functions = Extend(Extend(ConstructedFunctions, notion_page_agent, PageOperations),
                          notion_block_agent, BlockOperations)
    /\ pc = "unit"
    /\ prompt = <<>>
    /\ messages = <<>>
    /\ response = NoResponse
    /\ stdout = <<>>
    /\ active_agent = "None"
    /\ context_variables = EmptyDict
    /\ history = <<>>
    /\ call = NoCall
    /\ sent = <<>>
    /\ outcome = NoOutcome
    /\ ret = NoRet
    /\ turns = 0

CallUnit(op) ==
    /\ \E args \in UnitArgs(op), o \in Outcomes :
        LET r == Invoke(op, args, o)
        IN  /\ call' = [op |-> op, args |-> args]
            /\ sent' = r.sent
            /\ outcome' = IF r.sent = <<>> THEN NoOutcome ELSE o
            /\ ret' = r.ret
    /\ pc' = "returned"
    /\ UNCHANGED <<config, functions, prompt, messages, response, stdout, run_vars, turns>>

UnitCreatePage ==
    pc = "unit" /\ CallUnit("create_notion_page")

UnitHeading ==
    pc = "unit" /\ CallUnit("add_notion_heading_block")

UnitParagraph ==
    pc = "unit" /\ CallUnit("add_notion_paragraph_block")

UnitCode ==
    pc = "unit" /\ CallUnit("add_notion_code_block")

UnitEmbed ==
    pc = "unit" /\ CallUnit("add_notion_embed_block")

UnitYoutube ==
    pc = "unit" /\ CallUnit("add_notion_youtube_url_block")

UnitImage ==
    pc = "unit" /\ CallUnit("add_notion_image_block")

UnitBookmark ==
    pc = "unit" /\ CallUnit("add_notion_bookmark_block")

UnitNumberList ==
    pc = "unit" /\ CallUnit("add_notion_number_list_block")

UnitBulletedList ==
    pc = "unit" /\ CallUnit("add_notion_bulleted_list_block")

UnitToDo ==
    pc = "unit" /\ CallUnit("add_notion_to_do_block")

UnitNext ==
    \/ UnitCreatePage
    \/ UnitHeading
    \/ UnitParagraph
    \/ UnitCode
    \/ UnitEmbed
    \/ UnitYoutube
    \/ UnitImage
    \/ UnitBookmark
    \/ UnitNumberList
    \/ UnitBulletedList
    \/ UnitToDo

UnitSpec ==
    UnitInit /\ [][UnitNext]_vars

---------------------------------------------------------------------------
\* Properties.

\* A new turn begins: a line was read and client.run is entered.
TurnBegins ==
    pc = "input" /\ pc' = "run"

\* C1: the history handed to the router for a turn is every message of the
\* earlier turns, in order, followed by the new user message. The earlier
\* messages are those handed over for the turn before (messages) and those
\* that turn added (response.messages).
C1_HistoryAppendOnly ==
    [][TurnBegins =>
         messages' = (IF response = NoResponse THEN <<>>
                      ELSE messages \o response.messages)
                     \o <<[role |-> "user", content |-> UserContent(prompt')]>>]_vars

\* C2: an utterance is forwarded to the node that is active when it arrives:
\* Delegate for the first, and after that the node the turn before left
\* active (response.agent).
C2_ForwardedToActiveNode ==
    [][TurnBegins =>
         active_agent' = (IF response = NoResponse THEN notion_delegate_agent
                          ELSE response.agent)]_vars

\* C3: when the request of a content operation times out, with whatever
\* kind of timeout, the operation returns {"error": "Request timed out"},
\* raises nothing and has made one request.
C3_TimeoutIsRecovered ==
    (call.op \in ContentOperations /\ outcome.kind = "raise" /\ outcome.exc \in Timeouts)
        => (ret = Return([error |-> "Request timed out"]) /\ Len(sent) = 1)

\* C4: no error is fatal once the loop runs: every content operation returns
\* a value, whatever the outcome of its request, and the process goes on.
C4_NoErrorIsFatal ==
    /\ pc # "crashed"
    /\ (call.op \in ContentOperations => ret.kind = "return")

\* C5: the embed operation sends one request to the children endpoint of the
\* configured page, and the one child is an embed block whose url is the
\* argument.
C5_EmbedCarriesArgument ==
    call.op = "add_notion_embed_block" =>
        /\ Len(sent) = 1
        /\ sent[1].url = NOTION_ENDPOINT \o Str("/blocks/")
                            \o NOTION_PAGE_ID \o Str("/children")
        /\ sent[1].json.children =
              <<[object |-> "block", type |-> "embed", embed |-> [url |-> call.args.url]]>>

\* The context bundle of the values the process started with.
StartBundle ==
    [api_key |-> NOTION_API_KEY, page_id |-> NOTION_PAGE_ID]

\* The node a transfer capability leads to.
TransferTarget(name) ==
    CASE name = "transfer_to_notion_delegate_agent" -> "Notion Delegate Agent"
      [] name = "transfer_to_notion_page_agent" -> "Notion Page Agent"
      [] name = "transfer_to_notion_block_agent" -> "Notion Block Agent"

\* C6: within a run, after a transfer the active node is the transfer's
\* target and the context bundle is the one of process start, also when the
\* transfer leads back to Delegate; the bundle is never anything else once a
\* transfer was made, and the Response of a finished run carries it.
C6_TransferKeepsBundle ==
    /\ (pc = "run" /\ call.op \in TransferNames) =>
            /\ active_agent = TransferTarget(call.op)
            /\ context_variables = StartBundle
    /\ (pc = "run" /\ context_variables # EmptyDict) => context_variables = StartBundle
    /\ (response # NoResponse /\ response.context_variables # EmptyDict)
            => response.context_variables = StartBundle

\* Delegate was left for Page and is active again, in one run.
C6_Witness ==
    /\ pc = "run"
    /\ Len(history) = 5
    /\ history[3].tool_name = "transfer_to_notion_page_agent"
    /\ call.op = "transfer_to_notion_delegate_agent"
    /\ active_agent = notion_delegate_agent
    /\ context_variables = StartBundle

\* C7: the capability list of Delegate holds the two transfers and none of
\* the eleven content operations, in every state.
C7_DelegateOnlyTransfers ==
    /\ Range(functions[notion_delegate_agent])
          = {"transfer_to_notion_page_agent", "transfer_to_notion_block_agent"}
    /\ Range(functions[notion_delegate_agent]) \cap ContentOperations = {}
    /\ Cardinality(ContentOperations) = 11

\* Page and Block hold their content operations and a second turn runs.
C7_Witness ==
    /\ pc = "run"
    /\ turns = 2
    /\ "create_notion_page" \in Range(functions[notion_page_agent])
    /\ Len(functions[notion_block_agent]) = 11

\* s contains m: m occurs in s at some offset.
Contains(s, m) ==
    \E i \in 0..(Len(s) - Len(m)) : \A j \in 1..Len(m) : s[i + j] = m[j]

\* C8: the video operation returns an error value and makes no request
\* unless the url contains "youtube.com" and "watch?v="; with both it makes
\* one request whose video block carries the url.
C8_YoutubeGuard ==
    call.op = "add_notion_youtube_url_block" =>
        LET u == call.args.video_url
        IN  IF /\ Contains(u, <<"y", "o", "u", "t", "u", "b", "e", ".", "c", "o", "m">>)
               /\ Contains(u, <<"w", "a", "t", "c", "h", "?", "v", "=">>)
            THEN /\ Len(sent) = 1
                 /\ sent[1].method = "PATCH"
                 /\ sent[1].json.children =
                       <<[object |-> "block", type |-> "video",
                          video |-> [type |-> "external", external |-> [url |-> u]]]>>
            ELSE /\ sent = <<>>
                 /\ ret.kind = "return"
                 /\ DOMAIN ret.value = {"error"}

\* A url with both markers went out in a request.
C8_Witness ==
    /\ call.op = "add_notion_youtube_url_block"
    /\ Len(sent) = 1
    /\ pc = "returned"

ListOperations ==
    {"add_notion_number_list_block", "add_notion_bulleted_list_block",
     "add_notion_to_do_block"}

\* The block type of a list operation's children.
ListBlockType(op) ==
    CASE op = "add_notion_number_list_block" -> "numbered_list_item"
      [] op = "add_notion_bulleted_list_block" -> "bulleted_list_item"
      [] op = "add_notion_to_do_block" -> "to_do"

\* The position of the k-th comma of s; 0 before the first element and
\* Len(s) + 1 after the last.
CommaAt(s, k) ==
    IF k = 0 THEN 0
    ELSE IF k > Cardinality({i \in 1..Len(s) : s[i] = ","}) THEN Len(s) + 1
    ELSE CHOOSE i \in 1..Len(s) :
            s[i] = "," /\ Cardinality({j \in 1..i : s[j] = ","}) = k

\* The k-th element of s split on ',': what lies between two commas.
Segment(s, k) ==
    SubSeq(s, CommaAt(s, k - 1) + 1, CommaAt(s, k) - 1)

\* t is seg without its surrounding whitespace.
IsTrimmed(t, seg) ==
    \E i, j \in 0..Len(seg) :
        /\ i + j <= Len(seg)
        /\ t = SubSeq(seg, i + 1, Len(seg) - j)
        /\ \A k \in 1..i : seg[k] \in {" ", "\t", "\n"}
        /\ \A k \in (Len(seg) - j + 1)..Len(seg) : seg[k] \in {" ", "\t", "\n"}
        /\ (t # <<>> => t[1] \notin {" ", "\t", "\n"} /\ t[Len(t)] \notin {" ", "\t", "\n"})

\* C9: a list operation sends all its children in one request, each of the
\* operation's block type; for a string the children are the elements of the
\* split on ',', trimmed, in order, and for a list they are its elements.
C9_ListItems ==
    call.op \in ListOperations =>
        LET items == call.args.items
            type == ListBlockType(call.op)
            children == sent[1].json.children
            text(i) == children[i][type].rich_text[1].text.content
        IN  /\ Len(sent) = 1
            /\ \A i \in 1..Len(children) :
                    children[i].object = "block" /\ children[i].type = type
            /\ IF "str" \in DOMAIN items
               THEN /\ Len(children) = Cardinality({i \in 1..Len(items.str) :
                                                        items.str[i] = ","}) + 1
                    /\ \A k \in 1..Len(children) :
                            IsTrimmed(text(k), Segment(items.str, k))
               ELSE /\ Len(children) = Len(items.list)
                    /\ \A k \in 1..Len(children) : text(k) = items.list[k]

\* "a, b" as one string went out as the two children "a" and "b".
C9_Witness ==
    /\ call.op = "add_notion_bulleted_list_block"
    /\ call.args.items = [str |-> <<"a", ",", " ", "b">>]
    /\ Len(sent) = 1
    /\ Len(sent[1].json.children) = 2
    /\ sent[1].json.children[2].bulleted_list_item.rich_text[1].text.content = <<"b">>

\* line is "exit" or "quit" with each letter in either case.
IsExitKeyword(line) ==
    \E kw \in {<<"e", "x", "i", "t">>, <<"q", "u", "i", "t">>} :
        /\ Len(line) = Len(kw)
        /\ \A i \in 1..Len(kw) :
              \E n \in 1..Len(LowerCase) :
                  LowerCase[n] = kw[i] /\ line[i] \in {LowerCase[n], UpperCase[n]}

\* C10: the loop ends exactly on a line that is an exit keyword, with the
\* farewell and no turn; any other line starts one turn, after which the
\* loop reads again: the process ends in no other way.
C10_EndsExactlyOnKeyword ==
    /\ pc = "exited" => (IsExitKeyword(prompt) /\ stdout = Str("Bye bye"))
    /\ pc = "run" => ~IsExitKeyword(prompt)
    /\ pc \in {"main", "input", "run", "exited", "extend_page", "extend_block"}

\* Capability invocations the oracle has asked for in the run so far.
ToolCallsMade ==
    RunLength \div 2

\* C11: a run is bounded by a maximum step count, whatever the oracle does:
\* once the oracle has had as many capability invocations as the limit
\* allows, the run is over and control is back in the session loop. The
\* limit is taken as large as the exploration goes, MaxToolCalls; a run that
\* is still asking the oracle after that many invocations has no such limit.
C11_TurnIsBounded ==
    pc = "run" => ToolCallsMade < MaxToolCalls

\* The positions in history of the assistant messages that hold a tool call.
ToolCallAt ==
    {i \in 1..Len(history) :
        history[i].role = "assistant" /\ history[i].tool_call # [op |-> "None"]}

\* The oracle only selected capabilities of the node active at the time.
OracleKeepsToCapabilities ==
    \A i \in ToolCallAt :
        history[i].tool_call.op \in Range(functions[history[i].sender])

\* Before position i the run made a call of the capability name.
CalledBefore(name, i) ==
    \E j \in ToolCallAt : j < i /\ history[j].tool_call.op = name

\* The nodes active one after the other in the run: the sender of every
\* assistant message and, while the run goes on, the node active now.
ActiveSequence ==
    LET at == {i \in 1..Len(history) : history[i].role = "assistant"}
        senders == [k \in 1..Cardinality(at) |->
                      history[CHOOSE i \in at :
                                 Cardinality({j \in at : j <= i}) = k].sender]
    IN  IF pc = "run" THEN Append(senders, active_agent) ELSE senders

\* C12: when the oracle keeps to the capabilities of the active node, a run
\* starts at Delegate; page-create is called only while Page is active and
\* after a transfer-to-Page of the same run; a block insertion is called
\* only while Block is active and after a transfer-to-Block of the same run;
\* and Page is never followed by Block, nor Block by Page, as the active node.
C12_RoutingOrder ==
    OracleKeepsToCapabilities =>
        /\ ActiveSequence # <<>> => ActiveSequence[1] = "Notion Delegate Agent"
        /\ \A i \in ToolCallAt :
              /\ history[i].tool_call.op = "create_notion_page" =>
                    /\ history[i].sender = "Notion Page Agent"
                    /\ CalledBefore("transfer_to_notion_page_agent", i)
              /\ history[i].tool_call.op \in Range(BlockOperations) =>
                    /\ history[i].sender = "Notion Block Agent"
                    /\ CalledBefore("transfer_to_notion_block_agent", i)
        /\ \A k \in 1..(Len(ActiveSequence) - 1) :
              {ActiveSequence[k], ActiveSequence[k + 1]}
                  # {"Notion Page Agent", "Notion Block Agent"}

\* Delegate transferred to Page and Page created the page, in one run.
C12_Witness ==
    /\ pc = "run"
    /\ OracleKeepsToCapabilities
    /\ Len(history) = 5
    /\ history[2].tool_call.op = "transfer_to_notion_page_agent"
    /\ history[4].tool_call.op = "create_notion_page"
    /\ history[4].sender = "Notion Page Agent"
    /\ ret.kind = "return"

====
